---- MODULE Spec2Model ----
(***************************************************************************)
(* Model of create-json.py, the Strudel manifest builder: the filename and *)
(* path classification engine, the bucket aggregator and the final sorted  *)
(* assembly.                                                               *)
(*                                                                         *)
(* Strings are sequences of characters; a character is a one-character     *)
(* string (or the name of a code point for the two non-ASCII characters).  *)
(* An optional value (Python's None or a value) is a sequence of length 0  *)
(* or 1.                                                                   *)
(***************************************************************************)
EXTENDS Integers, Sequences, FiniteSets

(***************************************************************************)
(* Characters, in code point order (the order Python compares strings by). *)
(***************************************************************************)
Alphabet ==
  << " ", "!", "#", "-", ".", "/",
     "0", "1", "2", "3", "4", "5", "6", "7", "8", "9",
     "A", "B", "C", "D", "E", "F", "G", "H", "I", "J", "K", "L", "M",
     "N", "O", "P", "Q", "R", "S", "T", "U", "V", "W", "X", "Y", "Z",
     "_",
     "a", "b", "c", "d", "e", "f", "g", "h", "i", "j", "k", "l", "m",
     "n", "o", "p", "q", "r", "s", "t", "u", "v", "w", "x", "y", "z",
     "U+00E9", "U+0301" >>

CharSet == { Alphabet[i] : i \in 1..Len(Alphabet) }

\* ord(c), up to an order-preserving renumbering of the alphabet
Code == [c \in CharSet |-> CHOOSE i \in 1..Len(Alphabet) : Alphabet[i] = c]

IsDigit(c) == Code[c] >= Code["0"] /\ Code[c] <= Code["9"]
IsUpper(c) == Code[c] >= Code["A"] /\ Code[c] <= Code["Z"]
IsLower(c) == Code[c] >= Code["a"] /\ Code[c] <= Code["z"]
IsAsciiLetter(c) == IsUpper(c) \/ IsLower(c)
DigitVal(c) == Code[c] - Code["0"]

None == << >>
Some(v) == << v >>

LowerChar(c) == IF IsUpper(c) THEN Alphabet[Code[c] - Code["A"] + Code["a"]] ELSE c

lc(s) == [i \in 1..Len(s) |-> LowerChar(s[i])]

EndsWith(s, c) == Len(s) > 0 /\ s[Len(s)] = c

RECURSIVE StripLeft(_, _)
StripLeft(s, c) == IF Len(s) > 0 /\ s[1] = c THEN StripLeft(Tail(s), c) ELSE s

RECURSIVE StripRight(_, _)
StripRight(s, c) ==
  IF EndsWith(s, c) THEN StripRight(SubSeq(s, 1, Len(s) - 1), c) ELSE s

\* re.sub(r"[^a-z0-9]+", "_", s): every maximal run outside [a-z0-9] becomes one "_"
RECURSIVE SubRuns(_, _)
SubRuns(s, inRun) ==
  IF s = << >> THEN << >>
  ELSE IF IsLower(s[1]) \/ IsDigit(s[1])
       THEN << s[1] >> \o SubRuns(Tail(s), FALSE)
       ELSE (IF inRun THEN << >> ELSE << "_" >>) \o SubRuns(Tail(s), TRUE)

slug(s) == StripRight(StripLeft(SubRuns(lc(s), FALSE), "_"), "_")

\* str.split(sep)
RECURSIVE Split(_, _)
Split(s, sep) ==
  IF \A i \in 1..Len(s) : s[i] # sep THEN << s >>
  ELSE LET k == CHOOSE i \in 1..Len(s) : s[i] = sep /\ \A j \in 1..(i-1) : s[j] # sep
       IN  << SubSeq(s, 1, k - 1) >> \o Split(SubSeq(s, k + 1, Len(s)), sep)

\* str(int) of a non-negative integer
RECURSIVE IntToStr(_)
IntToStr(n) ==
  IF n < 10 THEN << Alphabet[Code["0"] + n] >>
  ELSE IntToStr(n \div 10) \o << Alphabet[Code["0"] + (n % 10)] >>

\* int(digits)
RECURSIVE StrToInt(_)
StrToInt(s) ==
  IF s = << >> THEN 0
  ELSE 10 * StrToInt(SubSeq(s, 1, Len(s) - 1)) + DigitVal(s[Len(s)])

\* Python's string comparison a < b
RECURSIVE StrLess(_, _)
StrLess(a, b) ==
  IF b = << >> THEN FALSE
  ELSE IF a = << >> THEN TRUE
  ELSE IF a[1] = b[1] THEN StrLess(Tail(a), Tail(b))
  ELSE Code[a[1]] < Code[b[1]]

(***************************************************************************)
(* normalize_note                                                          *)
(***************************************************************************)
SHARP2FLAT(n) ==
  CASE n = << "c", "#" >> -> Some(<< "d", "b" >>)
    [] n = << "d", "#" >> -> Some(<< "e", "b" >>)
    [] n = << "f", "#" >> -> Some(<< "f", "#" >>)
    [] n = << "g", "#" >> -> Some(<< "a", "b" >>)
    [] n = << "a", "#" >> -> Some(<< "b", "b" >>)
    [] OTHER -> None

normalize_note(note) ==
  LET n == lc(note)
  IN  IF EndsWith(n, "#")
      THEN (IF SHARP2FLAT(n) # None THEN SHARP2FLAT(n)[1] ELSE n)
      ELSE n

(***************************************************************************)
(* detectors                                                               *)
(***************************************************************************)
BpmMin == 40
BpmMax == 200

IsDelim(c) == c \in { " ", "_", "-" }

\* (\d{2,3})(?=$|[ _\-]) tried at position j: three digits first, then two.
\* The result is None or Some of [val, end], end being the position after the match.
BpmDigitsAt(s, j) ==
  LET dig(k) == k <= Len(s) /\ IsDigit(s[k])
      look(k) == k > Len(s) \/ IsDelim(s[k])
  IN  IF dig(j) /\ dig(j+1) /\ dig(j+2) /\ look(j+3)
      THEN Some([val |-> StrToInt(SubSeq(s, j, j+2)), end |-> j+3])
      ELSE IF dig(j) /\ dig(j+1) /\ look(j+2)
      THEN Some([val |-> StrToInt(SubSeq(s, j, j+1)), end |-> j+2])
      ELSE None

\* BPM_TOKEN tried at position i: "^" first, then a delimiter character
BpmMatchAt(s, i) ==
  IF i = 1 /\ BpmDigitsAt(s, 1) # None THEN BpmDigitsAt(s, 1)
  ELSE IF i <= Len(s) /\ IsDelim(s[i]) THEN BpmDigitsAt(s, i + 1)
  ELSE None

\* BPM_TOKEN.finditer(s): the non-overlapping matches from left to right
RECURSIVE BpmFindIter(_, _)
BpmFindIter(s, i) ==
  IF i > Len(s) THEN << >>
  ELSE LET m == BpmMatchAt(s, i)
       IN  IF m # None THEN << m[1].val >> \o BpmFindIter(s, m[1].end)
           ELSE BpmFindIter(s, i + 1)

get_bpm(stem) ==
  LET s == lc(stem)
      all == BpmFindIter(s, 1)
      cands == SelectSeq(all, LAMBDA b : BpmMin <= b /\ b < BpmMax)
  IN  IF cands # << >> THEN Some(cands[Len(cands)]) ELSE None

IsAccidental(c) == c \in { "#", "b" }
IsNoteLetter(c) == c \in { "a", "b", "c", "d", "e", "f", "g",
                           "A", "B", "C", "D", "E", "F", "G" }

\* ([A-Ga-g])([#b]?)(\d)(?=[^A-Za-z0-9]|$) tried at position j
KeyOctBodyAt(s, j) ==
  LET at(k, P(_)) == k <= Len(s) /\ P(s[k])
      look(k) == k > Len(s) \/ ~(IsAsciiLetter(s[k]) \/ IsDigit(s[k]))
  IN  IF at(j, IsNoteLetter) /\ at(j+1, IsAccidental) /\ at(j+2, IsDigit) /\ look(j+3)
      THEN Some([letter |-> s[j], acc |-> << s[j+1] >>, oct |-> DigitVal(s[j+2])])
      ELSE IF at(j, IsNoteLetter) /\ at(j+1, IsDigit) /\ look(j+2)
      THEN Some([letter |-> s[j], acc |-> << >>, oct |-> DigitVal(s[j+1])])
      ELSE None

KeyOctMatchAt(s, i) ==
  IF i = 1 /\ KeyOctBodyAt(s, 1) # None THEN KeyOctBodyAt(s, 1)
  ELSE IF i <= Len(s) /\ ~IsAsciiLetter(s[i]) THEN KeyOctBodyAt(s, i + 1)
  ELSE None

\* KEY_WITH_OCT.search(s): the leftmost match
RECURSIVE KeyOctSearch(_, _)
KeyOctSearch(s, i) ==
  IF i > Len(s) THEN None
  ELSE IF KeyOctMatchAt(s, i) # None THEN KeyOctMatchAt(s, i)
  ELSE KeyOctSearch(s, i + 1)

StartsAt(s, k, w) == k + Len(w) - 1 <= Len(s) /\ SubSeq(s, k, k + Len(w) - 1) = w

\* (maj|min|m)?(?=$|[ _\-\d]) tried at position k: the alternatives in order,
\* then the empty quality
KeyQualAt(s, k) ==
  LET look(p) == p > Len(s) \/ IsDelim(s[p]) \/ IsDigit(s[p])
      try(w) == StartsAt(s, k, w) /\ look(k + Len(w))
  IN  IF try(<< "m", "a", "j" >>) THEN Some(<< "m", "a", "j" >>)
      ELSE IF try(<< "m", "i", "n" >>) THEN Some(<< "m", "i", "n" >>)
      ELSE IF try(<< "m" >>) THEN Some(<< "m" >>)
      ELSE IF look(k) THEN Some(<< >>)
      ELSE None

\* ([A-Ga-g])([#b]?)(maj|min|m)?(?=$|[ _\-\d]) tried at position j
KeyTokBodyAt(s, j) ==
  LET at(k, P(_)) == k <= Len(s) /\ P(s[k])
  IN  IF at(j, IsNoteLetter) /\ at(j+1, IsAccidental) /\ KeyQualAt(s, j+2) # None
      THEN Some([letter |-> s[j], acc |-> << s[j+1] >>, qual |-> KeyQualAt(s, j+2)[1]])
      ELSE IF at(j, IsNoteLetter) /\ KeyQualAt(s, j+1) # None
      THEN Some([letter |-> s[j], acc |-> << >>, qual |-> KeyQualAt(s, j+1)[1]])
      ELSE None

KeyTokMatchAt(s, i) ==
  IF i = 1 /\ KeyTokBodyAt(s, 1) # None THEN KeyTokBodyAt(s, 1)
  ELSE IF i <= Len(s) /\ IsDelim(s[i]) THEN KeyTokBodyAt(s, i + 1)
  ELSE None

\* KEY_TOKEN.search(s): the leftmost match
RECURSIVE KeyTokSearch(_, _)
KeyTokSearch(s, i) ==
  IF i > Len(s) THEN None
  ELSE IF KeyTokMatchAt(s, i) # None THEN KeyTokMatchAt(s, i)
  ELSE KeyTokSearch(s, i + 1)

\* the key information of a KEY_WITH_OCT match m1 or else of a KEY_TOKEN match m2
KeyInfo(m1, m2) ==
  IF m1 # None
  THEN Some([root |-> normalize_note(<< m1[1].letter >> \o m1[1].acc),
             minor |-> FALSE, oct |-> Some(m1[1].oct)])
  ELSE IF m2 # None
  THEN Some([root |-> normalize_note(<< m2[1].letter >> \o m2[1].acc),
             minor |-> lc(m2[1].qual) \in { << "m" >>, << "m", "i", "n" >> },
             oct |-> None])
  ELSE None

get_key(stem) == KeyInfo(KeyOctSearch(lc(stem), 1), KeyTokSearch(lc(stem), 1))

(***************************************************************************)
(* path helpers                                                            *)
(***************************************************************************)
Range(q) == { q[i] : i \in 1..Len(q) }

Reverse(q) == [i \in 1..Len(q) |-> q[Len(q) + 1 - i]]

\* str.replace(a, b) for single characters
Replace(s, a, b) == [i \in 1..Len(s) |-> IF s[i] = a THEN b ELSE s[i]]

\* PurePath.name, PurePath.suffix and PurePath.stem
Name(path) == LET segs == Split(path, "/") IN segs[Len(segs)]

LastDot(name) ==
  IF \E i \in 1..Len(name) : name[i] = "."
  THEN CHOOSE i \in 1..Len(name) : name[i] = "." /\ \A j \in (i+1)..Len(name) : name[j] # "."
  ELSE 0

Suffix(path) ==
  LET name == Name(path)
      i == LastDot(name)
  IN  IF 1 < i /\ i < Len(name) THEN SubSeq(name, i, Len(name)) ELSE << >>

Stem(path) ==
  LET name == Name(path)
      i == LastDot(name)
  IN  IF 1 < i /\ i < Len(name) THEN SubSeq(name, 1, i - 1) ELSE name

\* unicodedata.normalize("NFC", s) on the alphabet: e + combining acute composes
RECURSIVE NFC(_)
NFC(s) ==
  IF s = << >> THEN << >>
  ELSE IF Len(s) >= 2 /\ s[1] = "e" /\ s[2] = "U+0301"
       THEN << "U+00E9" >> \o NFC(SubSeq(s, 3, Len(s)))
       ELSE << s[1] >> \o NFC(Tail(s))

AUDIO_EXTS ==
  { << ".", "w", "a", "v" >>, << ".", "a", "i", "f" >>, << ".", "a", "i", "f", "f" >>,
    << ".", "f", "l", "a", "c" >>, << ".", "m", "p", "3" >>, << ".", "o", "g", "g" >> }

GENERIC_FOLDERS ==
  { << "l", "o", "o", "p", "s" >>, << "l", "o", "o", "p" >>,
    << "o", "n", "e", " ", "s", "h", "o", "t", "s" >>,
    << "o", "n", "e", "s", "h", "o", "t", "s" >>,
    << "o", "n", "e", "_", "s", "h", "o", "t", "s" >>,
    << "s", "a", "m", "p", "l", "e", "s" >>, << "a", "u", "d", "i", "o" >>,
    << "s", "t", "e", "m", "s" >>, << "c", "u", "s", "t", "o", "m" >>,
    << "c", "u", "s", "t", "o", "m", "s" >>, << "s", "o", "u", "n", "d", "s" >>,
    << "s", "o", "u", "n", "d" >>, << "f", "x" >>, << "s", "f", "x" >>,
    << "e", "f", "f", "e", "c", "t", "s" >>, << "d", "r", "u", "m", "s" >> }

DRUM_LOOP_GROUPS(s) ==
  CASE s = << "b", "r", "e", "a", "k", "s" >> -> Some(<< "b", "r", "e", "a", "k", "s" >>)
    [] s = << "c", "l", "a", "p", "s" >> -> Some(<< "c", "l", "a", "p", "s" >>)
    [] s = << "s", "h", "a", "k", "e", "r", "s" >> -> Some(<< "s", "h", "a", "k", "e", "r", "s" >>)
    [] s = << "w", "o", "o", "d", "b", "l", "o", "c", "k" >>
         -> Some(<< "w", "o", "o", "d", "b", "l", "o", "c", "k" >>)
    [] s = << "w", "o", "o", "d", "b", "l", "c", "k" >>
         -> Some(<< "w", "o", "o", "d", "b", "l", "o", "c", "k" >>)
    [] OTHER -> None

has_seg(rel, name) ==
  LET segs == Split(rel, "/") IN \E i \in 1..Len(segs) : slug(segs[i]) = name

is_loops_folder(rel) ==
  has_seg(rel, << "l", "o", "o", "p" >>) \/ has_seg(rel, << "l", "o", "o", "p", "s" >>)

is_drums_loops(rel) == has_seg(rel, << "d", "r", "u", "m", "s" >>) /\ is_loops_folder(rel)

\* the group of the first segment whose slug is a group name
RECURSIVE FirstGroup(_)
FirstGroup(segs) ==
  IF segs = << >> THEN None
  ELSE IF DRUM_LOOP_GROUPS(slug(segs[1])) # None THEN DRUM_LOOP_GROUPS(slug(segs[1]))
  ELSE FirstGroup(Tail(segs))

\* the group named by the first "_" token of a segment's slug
RECURSIVE FirstGroupByToken(_)
FirstGroupByToken(segs) ==
  IF segs = << >> THEN None
  ELSE IF DRUM_LOOP_GROUPS(Split(slug(segs[1]), "_")[1]) # None
       THEN DRUM_LOOP_GROUPS(Split(slug(segs[1]), "_")[1])
  ELSE FirstGroupByToken(Tail(segs))

detect_drums_group_by_token(rel) == FirstGroupByToken(Split(rel, "/"))

detect_drums_group(rel) == FirstGroup(Split(rel, "/"))

INST == << "i", "n", "s", "t" >>

Singular(seg) ==
  IF EndsWith(seg, "s") /\ ~(Len(seg) >= 2 /\ seg[Len(seg) - 1] = "s")
  THEN SubSeq(seg, 1, Len(seg) - 1) ELSE seg

\* the first non-generic folder of the reversed parent segments, singularized
RECURSIVE FirstSpecific(_)
FirstSpecific(segs) ==
  IF segs = << >> THEN None
  ELSE IF Replace(segs[1], "_", " ") \notin GENERIC_FOLDERS
       THEN Some(IF Singular(segs[1]) # << >> THEN Singular(segs[1]) ELSE INST)
       ELSE FirstSpecific(Tail(segs))

guess_instrument(rel) ==
  LET raw == Split(rel, "/")
      segs == [i \in 1..Len(raw) |-> slug(raw[i])]
      found == FirstSpecific(Reverse(SubSeq(segs, 1, Len(segs) - 1)))
      tok == Split(slug(Stem(rel)), "_")[1]
  IN  IF found # None THEN found[1]
      ELSE IF tok # << >> THEN tok ELSE INST

\* p.suffix.lower() in AUDIO_EXTS
is_audio(p) == lc(Suffix(p)) \in AUDIO_EXTS

\* the files walk_audio yields from the files under the root
walk_audio(files) == { p \in files : is_audio(p) }

(***************************************************************************)
(* Python containers.  A dict is the sequence of its items in insertion    *)
(* order; a bucket is a list (shape "list", body the paths) or a dict from *)
(* pitch label to list (shape "map", body the items).                      *)
(***************************************************************************)
Item(k, v) == [k |-> k, v |-> v]

Has(d, k) == \E i \in 1..Len(d) : d[i].k = k

Get(d, k) == d[CHOOSE i \in 1..Len(d) : d[i].k = k].v

\* d[k] = v
Put(d, k, v) ==
  IF Has(d, k) THEN [i \in 1..Len(d) |-> IF d[i].k = k THEN Item(k, v) ELSE d[i]]
  ELSE Append(d, Item(k, v))

\* d.setdefault(k, v)
setdefault(d, k, v) == IF Has(d, k) THEN d ELSE Append(d, Item(k, v))

ListB(items) == [shape |-> "list", body |-> items]
MapB(items) == [shape |-> "map", body |-> items]

UNPITCHED == << "u", "n", "p", "i", "t", "c", "h", "e", "d" >>
BASE_KEY == << "_", "b", "a", "s", "e" >>
LOOPS == << "l", "o", "o", "p", "s" >>
DefaultOctave == 4

AppendAlways(list, rel) == Append(list, rel)

\* if rel not in L: L.append(rel)
AppendNew(list, rel) == IF rel \in Range(list) THEN list ELSE Append(list, rel)

ensure_map_empty(bucket) ==
  IF bucket.shape = "map" THEN bucket ELSE MapB(<< Item(UNPITCHED, << >>) >>)

ensure_map(bucket) ==
  IF bucket.shape = "map" THEN bucket
  ELSE MapB(<< Item(UNPITCHED, IF bucket.body # << >> THEN bucket.body ELSE << >>) >>)

\* buckets.setdefault(key, []); if rel not in buckets[key]: buckets[key].append(rel)
\* On a dict bucket "rel not in" tests the pitch labels and append raises AttributeError.
add_to_list(buckets, key, rel) ==
  LET b1 == setdefault(buckets, key, ListB(<< >>))
      v == Get(b1, key)
  IN  IF v.shape = "list"
      THEN [buckets |-> Put(b1, key, ListB(AppendNew(v.body, rel))), raised |-> FALSE]
      ELSE IF Has(v.body, rel)
      THEN [buckets |-> b1, raised |-> FALSE]
      ELSE [buckets |-> b1, raised |-> TRUE]

\* d.setdefault(label, []); if rel not in d[label]: d[label].append(rel), d = buckets[keyname]
add_to_label(buckets, keyname, label, rel) ==
  LET d1 == setdefault(Get(buckets, keyname).body, label, << >>)
      d2 == Put(d1, label, AppendNew(Get(d1, label), rel))
  IN  Put(buckets, keyname, MapB(d2))

add_pitched(buckets, keyname, pitch, rel) ==
  LET cur0 == IF Has(buckets, keyname) THEN Get(buckets, keyname) ELSE MapB(<< >>)
      b1 == Put(buckets, keyname, ensure_map(cur0))
  IN  [buckets |-> add_to_label(b1, keyname, pitch, rel), raised |-> FALSE]

\* without the shape test: a map bucket is flattened to the list of its
\* "unpitched" entries before the append
add_unpitched_flat(buckets, keyname, rel) ==
  IF Has(buckets, keyname) /\ Get(buckets, keyname).shape = "map"
  THEN add_to_list(Put(buckets, keyname,
                       ListB(IF Has(Get(buckets, keyname).body, UNPITCHED)
                             THEN Get(Get(buckets, keyname).body, UNPITCHED) ELSE << >>)),
                   keyname, rel)
  ELSE add_to_list(buckets, keyname, rel)

add_unpitched(buckets, keyname, rel) ==
  IF Has(buckets, keyname) /\ Get(buckets, keyname).shape = "map"
  THEN [buckets |-> add_to_label(buckets, keyname, UNPITCHED, rel), raised |-> FALSE]
  ELSE add_to_list(buckets, keyname, rel)

(***************************************************************************)
(* The per-file decision of main                                           *)
(***************************************************************************)
Join(a, b) == a \o << "_" >> \o b

is_loop(rel, bpm, keyi) == is_loops_folder(rel) \/ (bpm # None /\ keyi # None)

takes_drum_branch(rel) == is_drums_loops(rel) /\ detect_drums_group(rel) # None

drum_loop_key(prefix, grp, bpm) ==
  Join(prefix, grp) \o (IF bpm # None THEN << "_" >> \o IntToStr(bpm[1]) ELSE << >>)

loop_key(keyi) == keyi.root \o (IF keyi.minor THEN << "m" >> ELSE << >>)

generic_loop_key_keyed(prefix, bpm, keyi) ==
  IF bpm # None /\ keyi # None
  THEN Join(Join(prefix, IntToStr(bpm[1])), loop_key(keyi[1]))
  ELSE IF bpm # None THEN Join(prefix, IntToStr(bpm[1]))
  ELSE IF keyi # None THEN Join(prefix, loop_key(keyi[1]))
  ELSE Join(prefix, LOOPS)

generic_loop_key(prefix, bpm, keyi) ==
  IF bpm # None /\ keyi # None
  THEN Join(Join(prefix, IntToStr(bpm[1])), loop_key(keyi[1]))
  ELSE IF bpm # None THEN Join(prefix, IntToStr(bpm[1]))
  ELSE Join(prefix, LOOPS)

pitch_label(keyi) ==
  keyi.root \o IntToStr(IF keyi.oct # None THEN keyi.oct[1] ELSE DefaultOctave)

\* which branch of the loop body a file takes
Branch(rel, bpm, keyi) ==
  IF is_loop(rel, bpm, keyi)
  THEN (IF takes_drum_branch(rel) THEN "drum_loop" ELSE "generic_loop")
  ELSE (IF keyi # None THEN "pitched" ELSE "unpitched")

\* the bucket key the loop body computes for a file taking the given branch
BucketKey(pfx, rel, bpm, keyi, branch) ==
  CASE branch = "drum_loop" -> drum_loop_key(pfx, detect_drums_group(rel)[1], bpm)
    [] branch = "generic_loop" -> generic_loop_key(pfx, bpm, keyi)
    [] OTHER -> Join(pfx, guess_instrument(rel))

LocalsOf(pfx, rel, bpm, keyi, branch) ==
  [rel |-> rel, bpm |-> bpm, keyi |-> keyi, branch |-> branch,
   key |-> BucketKey(pfx, rel, bpm, keyi, branch)]

Classified(pfx, rel, bpm, keyi) == LocalsOf(pfx, rel, bpm, keyi, Branch(rel, bpm, keyi))

\* the locals of one iteration of the loop of main for the path p (relative to
\* the root): rel, bpm, keyi, the branch taken and the bucket key
Locals(pfx, p) == Classified(pfx, NFC(p), get_bpm(Stem(p)), get_key(Stem(p)))

\* the bucket update of one iteration with locals d
Contribute(bkts, d) ==
  CASE d.branch \in { "drum_loop", "generic_loop" } -> add_to_list(bkts, d.key, d.rel)
    [] d.branch = "pitched" -> add_pitched(bkts, d.key, pitch_label(d.keyi[1]), d.rel)
    [] OTHER -> add_unpitched(bkts, d.key, d.rel)

(***************************************************************************)
(* The assembly of main                                                    *)
(***************************************************************************)
RECURSIVE InsertString(_, _)
InsertString(q, x) ==
  IF q = << >> THEN << x >>
  ELSE IF StrLess(x, q[1]) THEN << x >> \o q
  ELSE << q[1] >> \o InsertString(Tail(q), x)

unsorted(list) == list

\* sorted(v) of a list of strings
RECURSIVE sorted(_)
sorted(list) ==
  IF list = << >> THEN << >>
  ELSE InsertString(sorted(SubSeq(list, 1, Len(list) - 1)), list[Len(list)])

RECURSIVE InsertItem(_, _)
InsertItem(q, x) ==
  IF q = << >> THEN << x >>
  ELSE IF StrLess(x.k, q[1].k) THEN << x >> \o q
  ELSE << q[1] >> \o InsertItem(Tail(q), x)

\* sorted(d.items()) of a dict with string keys
RECURSIVE sorted_items(_)
sorted_items(d) ==
  IF d = << >> THEN << >>
  ELSE InsertItem(sorted_items(SubSeq(d, 1, Len(d) - 1)), d[Len(d)])

sort_map(d) ==
  LET si == sorted_items(d) IN [i \in 1..Len(si) |-> Item(si[i].k, sorted(si[i].v))]

RECURSIVE FillManifest(_, _)
FillManifest(manifest, buckets) ==
  IF buckets = << >> THEN manifest
  ELSE LET k == buckets[1].k
           v == buckets[1].v
           sv == IF v.shape = "map" THEN MapB(sort_map(v.body)) ELSE ListB(sorted(v.body))
       IN  FillManifest(Put(manifest, k, sv), Tail(buckets))

\* the document main prints
Assemble(base, buckets) ==
  sorted_items(FillManifest(<< Item(BASE_KEY, [shape |-> "str", body |-> base]) >>, buckets))

(***************************************************************************)
(* The inputs: the files a scanned tree may hold (paths relative to the    *)
(* root, as the file system spells them) and the command line.             *)
(***************************************************************************)
\* drums/loops/Breaks_120.wav
F_BreaksFile ==
  << "d", "r", "u", "m", "s", "/", "l", "o", "o", "p", "s", "/", "B", "r",
     "e", "a", "k", "s", "_", "1", "2", "0", ".", "w", "a", "v" >>

\* drums/loops/Breaks/b_120.wav
F_BreaksDir ==
  << "d", "r", "u", "m", "s", "/", "l", "o", "o", "p", "s", "/", "B", "r",
     "e", "a", "k", "s", "/", "b", "_", "1", "2", "0", ".", "w", "a", "v" >>

\* loops/Piano_120_cm.wav
F_Piano ==
  << "l", "o", "o", "p", "s", "/", "P", "i", "a", "n", "o", "_", "1", "2",
     "0", "_", "c", "m", ".", "w", "a", "v" >>

\* loops/x.wav
F_LoopPlain ==
  << "l", "o", "o", "p", "s", "/", "x", ".", "w", "a", "v" >>

\* loops/Pad_c.wav
F_LoopKeyOnly ==
  << "l", "o", "o", "p", "s", "/", "P", "a", "d", "_", "c", ".", "w", "a",
     "v" >>

\* Lead/Saw_90_am.wav
F_Saw ==
  << "L", "e", "a", "d", "/", "S", "a", "w", "_", "9", "0", "_", "a", "m",
     ".", "w", "a", "v" >>

\* loops_c3.wav
F_LoopsC3 ==
  << "l", "o", "o", "p", "s", "_", "c", "3", ".", "w", "a", "v" >>

\* Bass/Bass_C3.wav
F_BassC3 ==
  << "B", "a", "s", "s", "/", "B", "a", "s", "s", "_", "C", "3", ".", "w",
     "a", "v" >>

\* Bass/hit.wav
F_BassHit ==
  << "B", "a", "s", "s", "/", "h", "i", "t", ".", "w", "a", "v" >>

\* Bass/E#3.wav
F_BassESharp ==
  << "B", "a", "s", "s", "/", "E", "#", "3", ".", "w", "a", "v" >>

\* Base/x.wav
F_BaseX ==
  << "B", "a", "s", "e", "/", "x", ".", "w", "a", "v" >>

\* Bass/e<U+0301>.wav
F_AccentNFD ==
  << "B", "a", "s", "s", "/", "e", "U+0301", ".", "w", "a", "v" >>

\* Bass/<U+00E9>.wav
F_AccentNFC ==
  << "B", "a", "s", "s", "/", "U+00E9", ".", "w", "a", "v" >>

\* notes.txt
F_Notes ==
  << "n", "o", "t", "e", "s", ".", "t", "x", "t" >>

Universe ==
  { F_BreaksFile, F_BreaksDir, F_Piano, F_LoopPlain, F_LoopKeyOnly,
    F_Saw, F_LoopsC3, F_BassC3, F_BassHit, F_BassESharp,
    F_BaseX, F_AccentNFD, F_AccentNFC, F_Notes }

MaxFiles == 3

Trees == { t \in SUBSET Universe : Cardinality(t) <= MaxFiles }

\* root.name: a named folder, or the empty name of the file system root
RootNames == { << "P", "-", "1" >>, << >> }

\* --prefix: absent, or given
PrefixArgs == { None, Some(<< "s", "p" >>) }

Bases == { << "h", "/" >> }

VARIABLES
  args,     \* the parsed command line: root (the root folder's name), base, prefix
  tree,     \* the files under the root
  todo,     \* the audio files walk_audio has not yielded yet
  buckets,  \* the bucket mapping
  pc,       \* "walk" in the loop, "done" after printing, "error" after an uncaught exception
  out,      \* the printed manifest, if any
  cur       \* the locals of the last iteration, if any

vars == << args, tree, todo, buckets, pc, out, cur >>

\* prefix = args.prefix or slug(root.name)
prefix_of(a) == IF a.prefix # None /\ a.prefix[1] # << >> THEN a.prefix[1] ELSE slug(a.root)

CommandLines == [root : RootNames, base : Bases, prefix : PrefixArgs]

PrefixOf == [a \in CommandLines |-> prefix_of(a)]

Prefixes == { PrefixOf[a] : a \in CommandLines }

\* the locals of the iteration for each file under each prefix
Decision == [q \in Prefixes, p \in Universe |-> Locals(q, p)]

prefix == PrefixOf[args]

Init ==
  /\ args \in CommandLines
  /\ tree \in Trees
  /\ todo = walk_audio(tree)
  /\ buckets = << >>
  /\ pc = "walk"
  /\ out = None
  /\ cur = None

\* the loop body with locals d, leaving the buckets as result res says
Body(d, res) ==
  /\ cur' = Some(d)
  /\ buckets' = res.buckets
  /\ pc' = IF res.raised THEN "error" ELSE "walk"

\* one iteration of the loop for the file p with locals d, taking the given branch
Step(p, d, branch) ==
  /\ pc = "walk"
  /\ d.branch = branch
  /\ Body(d, Contribute(buckets, d))
  /\ todo' = todo \ { p }
  /\ UNCHANGED << args, tree, out >>

\* walk_audio yields the files in an order the file system chooses
DrumLoop == \E p \in todo : Step(p, Decision[prefix, p], "drum_loop")

GenericLoop == \E p \in todo : Step(p, Decision[prefix, p], "generic_loop")

PitchedOneShot == \E p \in todo : Step(p, Decision[prefix, p], "pitched")

UnpitchedOneShot == \E p \in todo : Step(p, Decision[prefix, p], "unpitched")

\* the loop is over: sort, assemble, print
Emit ==
  /\ pc = "walk"
  /\ todo = { }
  /\ out' = Some(Assemble(args.base, buckets))
  /\ pc' = "done"
  /\ UNCHANGED << args, tree, todo, buckets, cur >>

Next == DrumLoop \/ GenericLoop \/ PitchedOneShot \/ UnpitchedOneShot \/ Emit

Spec == Init /\ [][Next]_vars

(***************************************************************************)
(* Whole runs of main over the audio files in a given order                *)
(***************************************************************************)
\* the loop of main over the files in the order given: the final buckets, or
\* None when an iteration raises
RECURSIVE RunInOrder(_, _, _)
RunInOrder(bkts, pfx, files) ==
  IF files = << >> THEN Some(bkts)
  ELSE LET res == Contribute(bkts, Decision[pfx, files[1]])
       IN  IF res.raised THEN None ELSE RunInOrder(res.buckets, pfx, Tail(files))

Printed(base, final) == IF final = None THEN None ELSE Some(Assemble(base, final[1]))

\* what main prints for the command line a when walk_audio yields the files in
\* the order given: the manifest, or None when the run ends in an exception
MainOutcome(a, files) == Printed(a.base, RunInOrder(<< >>, PrefixOf[a], files))

\* the orders in which walk_audio may yield the files of a set
Orders(S) ==
  { q \in [1..Cardinality(S) -> S] : \A i, j \in 1..Cardinality(S) : q[i] = q[j] => i = j }

(***************************************************************************)
(* Observations of a state                                                 *)
(***************************************************************************)
IsAudio == [p \in Universe |-> is_audio(p)]

\* the audio files of the tree
Audio == { p \in tree : IsAudio[p] }

Ended == pc \in { "done", "error" }

\* what this run printed, once it has ended
Outcome == IF pc = "error" THEN None ELSE out

\* the files whose iteration completed
Completed ==
  { p \in Audio \ todo : pc = "error" => Decision[prefix, p].rel # cur[1].rel }

\* every list of the bucket mapping, top-level or nested
ListsOf(bkts) ==
  { bkts[i].v.body : i \in { j \in 1..Len(bkts) : bkts[j].v.shape = "list" } }
  \cup UNION { { bkts[i].v.body[n].v : n \in 1..Len(bkts[i].v.body) } :
               i \in { j \in 1..Len(bkts) : bkts[j].v.shape = "map" } }

\* how many (bucket, list) places hold rel
Places(bkts, rel) ==
  Cardinality({ i \in 1..Len(bkts) : bkts[i].v.shape = "list" /\ rel \in Range(bkts[i].v.body) })
  + Cardinality({ x \in UNION { { << i, n >> : n \in 1..Len(bkts[i].v.body) } :
                                i \in { j \in 1..Len(bkts) : bkts[j].v.shape = "map" } } :
                  rel \in Range(bkts[x[1]].v.body[x[2]].v) })

NoDuplicates(q) == \A i, j \in 1..Len(q) : q[i] = q[j] => i = j

Increasing(q) == \A i, j \in 1..Len(q) : i < j => StrLess(q[i], q[j])

KeysOf(d) == [i \in 1..Len(d) |-> d[i].k]

\* the bucket under key holds rel where a contribution without pitch goes
HeldUnpitched(bkts, key, rel) ==
  /\ Has(bkts, key)
  /\ IF Get(bkts, key).shape = "map"
     THEN /\ Has(Get(bkts, key).body, UNPITCHED)
          /\ rel \in Range(Get(Get(bkts, key).body, UNPITCHED))
     ELSE rel \in Range(Get(bkts, key).body)

\* the bucket under key is a map holding rel under the pitch label
HeldPitched(bkts, key, label, rel) ==
  /\ Has(bkts, key)
  /\ Get(bkts, key).shape = "map"
  /\ Has(Get(bkts, key).body, label)
  /\ rel \in Range(Get(Get(bkts, key).body, label))

CanonicalNotes ==
  { << "c" >>, << "d", "b" >>, << "d" >>, << "e", "b" >>, << "e" >>, << "f" >>,
    << "f", "#" >>, << "g" >>, << "a", "b" >>, << "a" >>, << "b", "b" >>, << "b" >> }

\* what detect_drums_group returns for the two Breaks files
BreaksFileGroup == detect_drums_group(NFC(F_BreaksFile))
BreaksDirGroup == detect_drums_group(NFC(F_BreaksDir))
BREAKS == << "b", "r", "e", "a", "k", "s" >>

K_120 == << "1", "2", "0" >>
K_breaks_120 == << "b", "r", "e", "a", "k", "s", "_", "1", "2", "0" >>

(***************************************************************************)
(* The claims                                                              *)
(***************************************************************************)

\* C1: traversal-order independence: when a run has ended, its outcome (the
\* printed manifest, or the exception) is the outcome of main for every order
\* in which the same audio files can be yielded.
C1_OrderIndependent ==
  Ended => \A q \in Orders(Audio) : MainOutcome(args, q) = Outcome

\* C2: no per-file error path: no iteration raises, and after an iteration the
\* file's relative path is in exactly one list of the bucket mapping.
C2_NoErrorPath ==
  /\ pc # "error"
  /\ cur # None => Places(buckets, cur[1].rel) = 1

\* C3: reserved _base entry: no bucket has the key _base, the printed manifest
\* holds the base string given on the command line under _base, and with no
\* audio file the manifest holds nothing else.
C3_BaseReserved ==
  /\ ~Has(buckets, BASE_KEY)
  /\ pc = "done" =>
       /\ Has(out[1], BASE_KEY)
       /\ Get(out[1], BASE_KEY) = [shape |-> "str", body |-> args.base]
       /\ Audio = { } => Len(out[1]) = 1

\* C4 (as stated): drums/loops/Breaks_120.wav takes the drum-group branch,
\* detect_drums_group returning breaks, and lands in the plain list
\* {prefix}_breaks_120.
C4_BreaksFileInDrumBucket ==
  F_BreaksFile \in Completed =>
    /\ BreaksFileGroup = Some(BREAKS)
    /\ Decision[prefix, F_BreaksFile].branch = "drum_loop"
    /\ Has(buckets, Join(prefix, K_breaks_120))
    /\ Get(buckets, Join(prefix, K_breaks_120)).shape = "list"
    /\ NFC(F_BreaksFile) \in Range(Get(buckets, Join(prefix, K_breaks_120)).body)

\* C4 (amended): for drums/loops/Breaks_120.wav detect_drums_group returns
\* none, the file is a generic loop and lands in the bucket {prefix}_120; the
\* drum-group bucket {prefix}_breaks_120 receives a file whose group is named by
\* a folder, drums/loops/Breaks/b_120.wav, as a plain list.
C4_BreaksFileIsGenericLoop ==
  /\ F_BreaksFile \in Completed =>
       /\ BreaksFileGroup = None
       /\ Decision[prefix, F_BreaksFile].branch = "generic_loop"
       /\ HeldUnpitched(buckets, Join(prefix, K_120), NFC(F_BreaksFile))
       /\ Has(buckets, Join(prefix, K_breaks_120)) =>
            NFC(F_BreaksFile) \notin Range(Get(buckets, Join(prefix, K_breaks_120)).body)
  /\ F_BreaksDir \in Completed =>
       /\ BreaksDirGroup = Some(BREAKS)
       /\ Decision[prefix, F_BreaksDir].branch = "drum_loop"
       /\ Has(buckets, Join(prefix, K_breaks_120))
       /\ Get(buckets, Join(prefix, K_breaks_120)).shape = "list"
       /\ NFC(F_BreaksDir) \in Range(Get(buckets, Join(prefix, K_breaks_120)).body)

C4_Witness == F_BreaksFile \in Completed /\ F_BreaksDir \in Completed

\* C5: enharmonic invariant: the root of every key extracted from a stem, the
\* result of normalize_note on a letter A-G with an optional accidental, is one
\* of the 12 canonical pitch labels.
C5_CanonicalRoot ==
  (cur # None /\ cur[1].keyi # None) => cur[1].keyi[1].root \in CanonicalNotes

\* C6: list-to-map promotion preserves entries: every file whose iteration
\* completed is still in its bucket; a pitched one-shot under its
\* {root}{octave} label of a map, every other file in the plain list or, once
\* the bucket is a map, under "unpitched".
C6_PromotionPreserves ==
  \A p \in Completed :
    IF Decision[prefix, p].branch = "pitched"
    THEN HeldPitched(buckets, Decision[prefix, p].key,
                     pitch_label(Decision[prefix, p].keyi[1]), Decision[prefix, p].rel)
    ELSE HeldUnpitched(buckets, Decision[prefix, p].key, Decision[prefix, p].rel)

\* a bucket promoted from a list (its first label is "unpitched", with
\* entries) that holds a pitched one-shot too
C6_Witness ==
  /\ \E i \in 1..Len(buckets) :
       /\ buckets[i].v.shape = "map"
       /\ Len(buckets[i].v.body) >= 2
       /\ buckets[i].v.body[1].k = UNPITCHED
       /\ buckets[i].v.body[1].v # << >>
  /\ { F_BassHit, F_BassC3 } \subseteq Completed

\* C7: sort invariant: in the printed manifest the top-level keys are in
\* increasing order, every plain list is in increasing order, and every pitch
\* map has its labels in increasing order and each of its lists in increasing
\* order.
C7_Sorted ==
  pc = "done" =>
    /\ Increasing(KeysOf(out[1]))
    /\ \A i \in 1..Len(out[1]) :
         /\ out[1][i].v.shape = "list" => Increasing(out[1][i].v.body)
         /\ out[1][i].v.shape = "map" =>
              /\ Increasing(KeysOf(out[1][i].v.body))
              /\ \A n \in 1..Len(out[1][i].v.body) : Increasing(out[1][i].v.body[n].v)

\* a printed manifest whose buckets were filled out of order, at every level
C7_Witness ==
  /\ pc = "done"
  /\ ~Increasing(KeysOf(buckets))
  /\ \E i \in 1..Len(buckets) :
       \/ buckets[i].v.shape = "list" /\ ~Increasing(buckets[i].v.body)
       \/ /\ buckets[i].v.shape = "map"
          /\ ~Increasing(KeysOf(buckets[i].v.body))

\* C8: dedup invariant: no list of the bucket mapping, top-level or nested
\* under a pitch label, holds the same relative path twice.
C8_NoDuplicates == \A l \in ListsOf(buckets) : NoDuplicates(l)

\* two files with the same normalized relative path have both been processed
C8_Witness ==
  /\ { F_AccentNFD, F_AccentNFC } \subseteq Completed
  /\ NFC(F_AccentNFD) = NFC(F_AccentNFC)
  /\ F_AccentNFD # F_AccentNFC

\* C9: bucket shape monotonicity: in every step a map bucket stays a map, a
\* list bucket becomes a map only by a one-shot contribution with a key feature
\* to that bucket, and a contribution without key feature changes the shape of
\* no existing bucket.
C9_ShapeStep ==
  \A i \in 1..Len(buckets) :
    /\ Len(buckets') >= i
    /\ buckets'[i].k = buckets[i].k
    /\ buckets[i].v.shape = "map" => buckets'[i].v.shape = "map"
    /\ (buckets[i].v.shape = "list" /\ buckets'[i].v.shape = "map") =>
         /\ cur'[1].branch = "pitched"
         /\ cur'[1].keyi # None
         /\ cur'[1].key = buckets[i].k
    /\ (cur' # cur /\ cur'[1].keyi = None) => buckets'[i].v.shape = buckets[i].v.shape

C9_ShapeMonotone == [][C9_ShapeStep]_vars

\* a contribution without key feature has just gone to a bucket that a pitched
\* one-shot had made a map, and the bucket is still a map
C9_Witness ==
  /\ cur # None
  /\ cur[1].keyi = None
  /\ Has(buckets, cur[1].key)
  /\ Get(buckets, cur[1].key).shape = "map"
  /\ Get(buckets, cur[1].key).body[1].k # UNPITCHED

\* C10 (as stated): a generic loop gets {prefix}_{bpm}_{keyLabel} with tempo
\* and key, {prefix}_{bpm} with tempo only, {prefix}_loops with neither, and
\* every generic loop is in one of these three cases.
C10_ThreeRulesCoverAll ==
  (cur # None /\ cur[1].branch = "generic_loop") =>
    \/ /\ cur[1].bpm # None /\ cur[1].keyi # None
       /\ cur[1].key = prefix \o << "_" >> \o IntToStr(cur[1].bpm[1]) \o << "_" >>
                         \o cur[1].keyi[1].root
                         \o (IF cur[1].keyi[1].minor THEN << "m" >> ELSE << >>)
    \/ /\ cur[1].bpm # None /\ cur[1].keyi = None
       /\ cur[1].key = prefix \o << "_" >> \o IntToStr(cur[1].bpm[1])
    \/ /\ cur[1].bpm = None /\ cur[1].keyi = None
       /\ cur[1].key = prefix \o << "_", "l", "o", "o", "p", "s" >>

\* C10 (amended): a generic loop gets {prefix}_{bpm}_{keyLabel} with tempo and
\* key, {prefix}_{bpm} with tempo only, and {prefix}_loops whenever no tempo
\* was extracted, with or without a key.
C10_LoopsWheneverNoTempo ==
  (cur # None /\ cur[1].branch = "generic_loop") =>
    \/ /\ cur[1].bpm # None /\ cur[1].keyi # None
       /\ cur[1].key = prefix \o << "_" >> \o IntToStr(cur[1].bpm[1]) \o << "_" >>
                         \o cur[1].keyi[1].root
                         \o (IF cur[1].keyi[1].minor THEN << "m" >> ELSE << >>)
    \/ /\ cur[1].bpm # None /\ cur[1].keyi = None
       /\ cur[1].key = prefix \o << "_" >> \o IntToStr(cur[1].bpm[1])
    \/ /\ cur[1].bpm = None
       /\ cur[1].key = prefix \o << "_", "l", "o", "o", "p", "s" >>

\* a loop-folder file with a key and no tempo has been given its bucket
C10_Witness ==
  /\ cur # None
  /\ cur[1].branch = "generic_loop"
  /\ cur[1].bpm = None
  /\ cur[1].keyi # None
  /\ pc = "walk"
  /\ Has(buckets, cur[1].key)

====
